---------------------------- MODULE Spec2Model ----------------------------
(***************************************************************************)
(* Project Wonderland: an LLM gateway (FastAPI + SQLModel + litellm).      *)
(* The repository holds two drafts of the same application, src/main.py    *)
(* and src/wonderland.py.  The variable draft says which of the two is     *)
(* the running process; every operation is translated from the draft's own *)
(* handler.                                                                *)
(*                                                                         *)
(* Strings are sequences of tokens.  Text that the program transforms      *)
(* character by character (provider names, model names) is spelled one     *)
(* character per token; fixed literals of the source ("_API_KEY",          *)
(* "Provider with id: ") are one token each.  Python's None is the value   *)
(* None below, which is no string over these tokens.                       *)
(***************************************************************************)
EXTENDS Naturals, Sequences, FiniteSets, TLC

VARIABLES
  draft,    \* "main" or "wonderland": the draft that is running
  phase,    \* "boot" before the startup hook has run, then "serving"
  store,    \* the Provider table: id -> row
  environ,  \* os.environ, the process-wide credential lookup
  reqs,     \* the completion requests being handled, one per slot
  resp,     \* the response the application sent last
  ops,      \* requests received so far
  deleted   \* history: ids of the stored providers a delete request named

vars == <<draft, phase, store, environ, reqs, resp, ops, deleted>>

---------------------------------------------------------------------------
(* Bounds of the model *)

\* provider ids 1..MaxId may be stored; id MaxId+1 is never stored
MaxId == 2
\* completion requests that may be in flight at the same time
MaxReqs == 2
\* handler invocations in one run of the process
MaxOps == 2

Ids == 1..MaxId
RequestIds == 1..(MaxId + 1)
Slots == 1..MaxReqs

---------------------------------------------------------------------------
(* Values *)

None == <<"None">>

S_openai == <<"o", "p", "e", "n", "a", "i">>
S_custom == <<"c", "u">>
S_v2 == <<"/", "v", "2">>
S_base == <<"h", "t", "t", "p", "s", ":", "/", "/", "x">>
S_k1 == <<"k", "1">>
S_k2 == <<"k", "2">>
S_m == <<"m">>
S_env_secret == <<"s", "k">>

\* truthiness of an optional string: None and "" are falsy
Truthy(v) == v # None /\ v # <<>>

UpperChar(c) ==
  CASE c = "a" -> "A" [] c = "c" -> "C" [] c = "e" -> "E" [] c = "i" -> "I"
    [] c = "k" -> "K" [] c = "n" -> "N" [] c = "o" -> "O" [] c = "p" -> "P"
    [] c = "u" -> "U" [] OTHER -> c

\* str.upper()
Upper(s) == [i \in 1..Len(s) |-> UpperChar(s[i])]

Digit(n) ==
  CASE n = 0 -> "0" [] n = 1 -> "1" [] n = 2 -> "2" [] n = 3 -> "3"
    [] n = 4 -> "4" [] n = 5 -> "5" [] n = 6 -> "6" [] n = 7 -> "7"
    [] n = 8 -> "8" [] OTHER -> "9"

RECURSIVE IntToStr(_)
\* str(n) for n >= 0
IntToStr(n) == IF n < 10 THEN <<Digit(n)>> ELSE IntToStr(n \div 10) \o <<Digit(n % 10)>>

\* needle occurs in hay as a contiguous run
Contains(hay, needle) ==
  \E i \in 0..(Len(hay) - Len(needle)) :
    \A j \in 1..Len(needle) : hay[i + j] = needle[j]

Restrict(f, S) == [x \in (DOMAIN f) \cap S |-> f[x]]

EmptyMap == [x \in {} |-> <<>>]


---------------------------------------------------------------------------
(* Data model *)

\* columns of the Provider table besides the primary key id
ProviderFields == {"provider_name", "provider_syntax", "endpoint", "api_base", "api_key"}

\* columns declared with a non-optional type (str): NOT NULL in the table
NotNullFields == {"provider_name", "api_key"}

\* fields of ProviderUpdate: every one optional, id is not among them
ProviderUpdateFields == {"provider_name", "provider_syntax", "endpoint", "api_key", "api_base"}

\* fields of CompletionReqBase; CompletionReq adds provider_id
CompletionReqBaseFields == {"model", "messages", "max_tokens"}

\* a sample of litellm.provider_list, the known-provider catalog
ListedProviders == {S_openai, <<"a", "z", "u", "r", "e">>}

\* values a client may send for each provider field (JSON null is None)
FieldValues(f) ==
  CASE f = "provider_name" -> {S_custom, None}
    [] f = "provider_syntax" -> {S_openai, None}
    [] f = "endpoint" -> {S_v2, None}
    [] f = "api_base" -> {S_base, <<>>}
    [] OTHER -> {S_k2, None}

\* bodies of PATCH /providers/{id}: the fields the client set, with their values.
\* The empty body, every body that sets one field, and bodies that set several.
Patches ==
  UNION {[{f} -> FieldValues(f)] : f \in ProviderUpdateFields}
  \cup { EmptyMap,
         [endpoint |-> S_v2, api_key |-> S_k2],
         [provider_name |-> S_custom, api_key |-> S_k2],
         [provider_name |-> S_openai, api_base |-> <<>>, api_key |-> None],
         [provider_name |-> S_custom, provider_syntax |-> S_openai, endpoint |-> <<>>,
          api_base |-> None, api_key |-> S_k1] }

Prov(n, s, e, b, k) ==
  [provider_name |-> n, provider_syntax |-> s, endpoint |-> e, api_base |-> b, api_key |-> k]

\* rows the table may hold when the process starts (warren.db is kept across runs)
InitRecords ==
  { Prov(S_openai, S_openai, None, None, S_k1),
    Prov(S_custom, S_openai, S_v2, S_base, S_k2) }

InitStores == UNION {[S -> InitRecords] : S \in SUBSET Ids}

\* bodies of POST /providers: a Provider without id
NewProviders == InitRecords

Messages == <<[role |-> "user", content |-> "hi"]>>

\* bodies of POST /chat/completions: the fields the client set
RawRequests ==
  {[model |-> S_m, messages |-> Messages, provider_id |-> i] : i \in RequestIds}
  \cup {[model |-> S_m, messages |-> Messages, max_tokens |-> 5, provider_id |-> i] :
          i \in RequestIds}

\* the process environment before the application writes to it
InitEnvirons ==
  { [k \in {<<"PATH">>} |-> <<"/bin">>],
    [k \in {<<"PATH">>, <<"OPENROUTER_API_KEY">>} |->
       IF k = <<"PATH">> THEN <<"/bin">> ELSE S_env_secret] }

---------------------------------------------------------------------------
(* Helpers translated from the source *)

\* CompletionReqBase.max_tokens: int | None = 256
DefaultMaxTokens == 256

NoBody == [kind |-> "none", mapping |-> EmptyMap, text |-> <<>>]

Response(op, id, status, error, detail, body) ==
  [op |-> op, id |-> id, status |-> status, error |-> error, detail |-> detail, body |-> body]

\* an exception no handler catches: FastAPI answers 500 Internal Server Error
Unhandled(op, id, error) == Response(op, id, 500, error, <<"Internal Server Error">>, NoBody)

\* "Provider with id: " + str(provider_id) + " not found."
NotFoundDetail(id) == <<"Provider with id: ">> \o IntToStr(id) \o <<" not found.">>

\* os.environ[k] = v
SetEnv(env, k, v) == [x \in (DOMAIN env) \cup {k} |-> IF x = k THEN v ELSE env[x]]

\* provider_name.upper() + "_API_KEY"
KeyName(name) == Upper(name) \o <<"_API_KEY">>

RECURSIVE AscSeq(_)
\* the rows of SELECT * FROM provider, in rowid order
AscSeq(S) ==
  IF S = {} THEN <<>>
  ELSE LET m == CHOOSE x \in S : \A y \in S : x <= y
       IN <<m>> \o AscSeq(S \ {m})

RECURSIVE WriteKeys(_, _, _)
\* wonderland.py set_provider_keys: for provider in providers: os.environ[name] = api_key
WriteKeys(env, rows, tbl) ==
  IF rows = <<>> THEN env
  ELSE WriteKeys(SetEnv(env, KeyName(tbl[Head(rows)].provider_name), tbl[Head(rows)].api_key),
                 Tail(rows), tbl)

\* attribute access on a model instance: AttributeError for a name it has no field for
HasAttr(obj, name) == name \in DOMAIN obj

\* model_dump() without exclude_unset: every field, set by the caller or not
ModelDumpAll(obj) == obj.values

\* model_dump(exclude_unset=True) of a pydantic object
ModelDumpExcludeUnset(obj) == Restrict(obj.values, obj.fields_set)

\* CompletionReqBase.validate(d): fields of the model are taken from d, other keys
\* of d are ignored, and a field d lacks gets its default without becoming set
ValidateCompletionReqBase(d) ==
  [values |-> [f \in CompletionReqBaseFields |->
                 IF f \in DOMAIN d THEN d[f] ELSE DefaultMaxTokens],
   fields_set |-> (DOMAIN d) \cap CompletionReqBaseFields]

\* assignment to a declared field of a pydantic object: the field becomes set
SetField(obj, f, v) ==
  [values |-> [obj.values EXCEPT ![f] = v], fields_set |-> obj.fields_set \cup {f}]

\* parse_request(request, provider): the translated request, or the exception raised
parse_request(request, provider) ==
  LET response == ValidateCompletionReqBase(request)
      prefixed == provider.provider_syntax \o <<"/">> \o response.values["model"]
      suffixed == IF Truthy(provider.endpoint) THEN prefixed \o provider.endpoint
                  ELSE prefixed
  IN IF provider.provider_syntax = None
       THEN [ok |-> FALSE, error |-> "TypeError", response |-> response]
     ELSE IF Truthy(provider.api_base)
       \* response.api_base = ...: CompletionReqBase declares no field api_base
       THEN [ok |-> FALSE, error |-> "ValueError",
             response |-> SetField(response, "model", suffixed)]
     ELSE [ok |-> TRUE, error |-> "", response |-> SetField(response, "model", suffixed)]

\* is_provider_listed(provider_id, session) for a stored provider
is_provider_listed(tbl, id) == tbl[id].provider_name \in ListedProviders

\* sqlmodel_update(provider_data): every key of the dict is assigned
sqlmodel_update(row, data) ==
  [f \in DOMAIN row |-> IF f \in DOMAIN data THEN data[f] ELSE row[f]]

\* the INSERT or UPDATE is refused when a NOT NULL column would hold NULL
IntegrityOk(row) == \A f \in NotNullFields : row[f] # None

Idle == [pc |-> "idle", raw |-> EmptyMap, rows |-> <<>>, session |-> EmptyMap,
         sent |-> EmptyMap, read |-> FALSE]

\* no handler is running on the event loop thread
LoopFree == \A r \in Slots : reqs[r].pc # "sync"

\* the free request slot a new completion request takes
FreeSlot(r) == reqs[r].pc = "idle" /\ \A q \in Slots : q < r => reqs[q].pc # "idle"

Serving == phase = "serving" /\ ops < MaxOps

---------------------------------------------------------------------------
(* State *)

TypeOK ==
  /\ draft \in {"main", "wonderland"}
  /\ phase \in {"boot", "serving"}
  /\ DOMAIN store \subseteq Ids
  /\ \A id \in DOMAIN store : DOMAIN store[id] = ProviderFields
  /\ DOMAIN reqs = Slots
  /\ \A r \in Slots : reqs[r].pc \in {"idle", "sync", "inflight"}
  /\ ops \in 0..MaxOps

Init ==
  /\ draft \in {"main", "wonderland"}
  /\ phase = "boot"
  /\ store \in InitStores
  /\ environ \in InitEnvirons
  /\ reqs = [r \in Slots |-> Idle]
  /\ resp = Response("none", 0, 0, "", <<>>, NoBody)
  /\ ops = 0
  /\ deleted = {}

---------------------------------------------------------------------------
(* Process start *)

\* wonderland.py lifespan: create_db_tables(); set_provider_keys()
lifespan ==
  /\ draft = "wonderland"
  /\ phase = "boot"
  /\ phase' = "serving"
  /\ environ' = WriteKeys(environ, AscSeq(DOMAIN store), store)
  /\ UNCHANGED <<draft, store, reqs, resp, ops, deleted>>

\* main.py startup_db_client: create_db_tables()
startup_db_client ==
  /\ draft = "main"
  /\ phase = "boot"
  /\ phase' = "serving"
  /\ UNCHANGED <<draft, store, environ, reqs, resp, ops, deleted>>

---------------------------------------------------------------------------
(* Provider block.  Handlers declared def run on a worker thread; handlers   *)
(* declared async def run on the event loop thread, one at a time.           *)

\* POST /providers (both drafts; async def in main.py, def in wonderland.py)
add_provider(provider) ==
  /\ Serving
  /\ draft = "main" => LoopFree
  /\ ops' = ops + 1
  /\ IF ~HasAttr(provider, "provider_id")
       \* provider.provider_id: Provider has no such attribute
       THEN /\ resp' = Unhandled("add_provider", 0, "AttributeError")
            /\ UNCHANGED store
     ELSE IF provider.provider_id \notin DOMAIN store
       \* is_provider_listed: session.get gives None, None.provider_name
       THEN /\ resp' = Unhandled("add_provider", provider.provider_id, "AttributeError")
            /\ UNCHANGED store
     ELSE
       LET listed == is_provider_listed(store, provider.provider_id)
           fields == Restrict(provider, ProviderFields)
           row == IF listed THEN [fields EXCEPT !.provider_syntax = provider.provider_name]
                  ELSE fields
           id == CHOOSE n \in 1..(MaxId + 1) : \A m \in DOMAIN store : m < n
       IN IF IntegrityOk(row)
            THEN /\ store' = [x \in (DOMAIN store) \cup {id} |->
                                IF x = id THEN row ELSE store[x]]
                 /\ resp' = Response("add_provider", id, 200, "",
                                     row.provider_name \o <<" has been added as a provider!">>,
                                     NoBody)
          ELSE /\ resp' = Unhandled("add_provider", 0, "IntegrityError")
               /\ UNCHANGED store
  /\ UNCHANGED <<draft, phase, deleted, environ, reqs>>

\* GET /providers/{provider_id} (both drafts, def)
get_provider(provider_id) ==
  /\ Serving
  /\ ops' = ops + 1
  /\ resp' = IF provider_id \in DOMAIN store
               THEN Response("get_provider", provider_id, 200, "", <<>>,
                             [NoBody EXCEPT !.kind = "provider"])
             ELSE Response("get_provider", provider_id, 404, "HTTPException",
                           NotFoundDetail(provider_id), NoBody)
  /\ UNCHANGED <<draft, phase, deleted, store, environ, reqs>>

\* the detail of update_provider's 404: main.py:116, wonderland.py:127
UpdateNotFoundDetail(id) ==
  IF draft = "main" THEN <<"Provider not found.">> ELSE NotFoundDetail(id)

\* the ProviderUpdate object FastAPI builds from a PATCH body: a field the body
\* lacks has its default None and is not set
ParseProviderUpdate(body) ==
  [values |-> [f \in ProviderUpdateFields |-> IF f \in DOMAIN body THEN body[f] ELSE None],
   fields_set |-> DOMAIN body]

\* the row after PATCH: provider_update.model_dump(exclude_unset=True), sqlmodel_update
UpdatedRow(row, provider_update) ==
  sqlmodel_update(row, ModelDumpExcludeUnset(provider_update))

\* the body of update_provider: the table it leaves and the response it sends
UpdateOutcome(tbl, provider_id, provider_update) ==
  IF provider_id \notin DOMAIN tbl
    THEN [store |-> tbl,
          resp |-> Response("update_provider", provider_id, 404, "HTTPException",
                            UpdateNotFoundDetail(provider_id), NoBody)]
  ELSE
    LET row == UpdatedRow(tbl[provider_id], ParseProviderUpdate(provider_update))
    IN IF IntegrityOk(row)
         THEN [store |-> [tbl EXCEPT ![provider_id] = row],
               resp |-> Response("update_provider", provider_id, 200, "", <<>>,
                                 [NoBody EXCEPT !.kind = "provider"])]
       \* session.commit() raises, the session is closed without a commit
       ELSE [store |-> tbl,
             resp |-> Unhandled("update_provider", provider_id, "IntegrityError")]

\* PATCH /providers/{provider_id} (both drafts, def)
update_provider(provider_id, provider_update) ==
  /\ Serving
  /\ ops' = ops + 1
  /\ store' = UpdateOutcome(store, provider_id, provider_update).store
  /\ resp' = UpdateOutcome(store, provider_id, provider_update).resp
  /\ UNCHANGED <<draft, phase, deleted, environ, reqs>>

\* wonderland.py DELETE /providers/{provider_id} (async def)
delete_provider(provider_id) ==
  /\ draft = "wonderland"
  /\ Serving
  /\ LoopFree
  /\ ops' = ops + 1
  /\ IF provider_id \notin DOMAIN store
       \* HTTPException(status_code=404, details=...): no parameter named details
       THEN /\ resp' = Unhandled("delete_provider", provider_id, "TypeError")
            /\ UNCHANGED <<store, deleted>>
     \* session.delete; session.commit(); then provider.provider_id in the message
     ELSE /\ store' = Restrict(store, (DOMAIN store) \ {provider_id})
          /\ resp' = Unhandled("delete_provider", provider_id, "AttributeError")
          /\ deleted' = deleted \cup {provider_id}
  /\ UNCHANGED <<draft, phase, environ, reqs>>

\* main.py DELETE /providers?provider_name=... (async def): no row is deleted
main_delete_provider(provider_name) ==
  /\ draft = "main"
  /\ Serving
  /\ LoopFree
  /\ ops' = ops + 1
  /\ resp' = Response("delete_provider", 0, 200, "",
                      provider_name \o <<" has been removed from the database. Remaining providers:">>,
                      [NoBody EXCEPT !.kind = "providers"])
  /\ deleted' = deleted \cup {id \in DOMAIN store : store[id].provider_name = provider_name}
  /\ UNCHANGED <<draft, phase, store, environ, reqs>>

---------------------------------------------------------------------------
(* Completion.  api_completion runs on the event loop thread up to          *)
(* await litellm.acompletion(...), which hands the call to the backend; the *)
(* backend layer reads the credential lookup os.environ on a worker thread  *)
(* (litellm runs completion() through loop.run_in_executor) and the         *)
(* handler resumes on the event loop thread when that call ends.            *)

\* what the session of a request gives for an id: its own loaded object if it
\* has one (the identity map), else the row of the table
SessionView(session) ==
  [id \in (DOMAIN session) \cup (DOMAIN store) |->
     IF id \in DOMAIN session THEN session[id] ELSE store[id]]

\* get_provider, parse_request and the call of litellm.acompletion for slot r
Dispatch(r, raw, tbl) ==
  IF raw.provider_id \notin DOMAIN tbl
    THEN /\ resp' = Response("api_completion", raw.provider_id, 404, "HTTPException",
                             NotFoundDetail(raw.provider_id), NoBody)
         /\ reqs' = [reqs EXCEPT ![r] = Idle]
  ELSE
    LET request == parse_request(raw, tbl[raw.provider_id])
    IN IF ~request.ok
         THEN /\ resp' = Unhandled("api_completion", raw.provider_id, request.error)
              /\ reqs' = [reqs EXCEPT ![r] = Idle]
       ELSE /\ reqs' = [reqs EXCEPT ![r] =
                          [reqs[r] EXCEPT !.pc = "inflight", !.raw = raw,
                               !.sent = ModelDumpExcludeUnset(request.response)]]
            /\ UNCHANGED resp

\* wonderland.py POST /chat/completions, up to the await
api_completion(r, rawrequest) ==
  /\ draft = "wonderland"
  /\ Serving
  /\ LoopFree
  /\ FreeSlot(r)
  /\ ops' = ops + 1
  /\ Dispatch(r, rawrequest, store)
  /\ UNCHANGED <<draft, phase, deleted, store, environ>>

\* main.py POST /chat/completions: the handler starts and set_provider_keys
\* runs its query, providers = session.exec(select(Provider))
main_api_completion(r, rawrequest) ==
  /\ draft = "main"
  /\ Serving
  /\ LoopFree
  /\ FreeSlot(r)
  /\ ops' = ops + 1
  /\ reqs' = [reqs EXCEPT ![r] =
                [Idle EXCEPT !.pc = "sync", !.raw = rawrequest,
                     !.rows = AscSeq(DOMAIN store), !.session = store]]
  /\ UNCHANGED <<draft, phase, deleted, store, environ, resp>>

\* main.py set_provider_keys, one turn of its loop:
\*   provider.provider_name = provider.provider_name.upper() + "_API_KEY"
\*   os.environ[provider.provider_name] = provider.api_key
set_provider_keys(r) ==
  /\ reqs[r].pc = "sync"
  /\ reqs[r].rows # <<>>
  /\ LET id == Head(reqs[r].rows)
         provider == reqs[r].session[id]
         name == KeyName(provider.provider_name)
     IN /\ reqs' = [reqs EXCEPT ![r].rows = Tail(reqs[r].rows),
                                ![r].session[id].provider_name = name]
        /\ environ' = SetEnv(environ, name, provider.api_key)
  /\ UNCHANGED <<draft, phase, deleted, store, resp, ops>>

\* main.py api_completion after set_provider_keys, up to the await
main_api_completion_resume(r) ==
  /\ reqs[r].pc = "sync"
  /\ reqs[r].rows = <<>>
  /\ Dispatch(r, reqs[r].raw, SessionView(reqs[r].session))
  /\ UNCHANGED <<draft, phase, deleted, store, environ, ops>>

\* the backend layer reads the credential lookup for the call of slot r
acompletion_read(r) ==
  /\ reqs[r].pc = "inflight"
  /\ ~reqs[r].read
  /\ reqs' = [reqs EXCEPT ![r].read = TRUE]
  /\ UNCHANGED <<draft, phase, deleted, store, environ, resp, ops>>

\* response = os.environ (wonderland.py:186), os.environ["OPENROUTER_API_KEY"] (main.py:146)
ExceptResponse(id) ==
  IF draft = "wonderland"
    THEN Response("api_completion", id, 200, "", <<>>,
                  [kind |-> "environ", mapping |-> environ, text |-> <<>>])
  ELSE IF <<"OPENROUTER_API_KEY">> \in DOMAIN environ
    THEN Response("api_completion", id, 200, "", <<>>,
                  [kind |-> "text", mapping |-> EmptyMap,
                   text |-> environ[<<"OPENROUTER_API_KEY">>]])
  ELSE Unhandled("api_completion", id, "KeyError")

\* litellm.acompletion returns (succeeded) or raises, and the handler returns
acompletion_return(r, succeeded) ==
  /\ reqs[r].pc = "inflight"
  /\ LoopFree
  /\ succeeded => reqs[r].read
  /\ resp' = IF succeeded
               THEN Response("api_completion", reqs[r].raw.provider_id, 200, "", <<>>,
                             [NoBody EXCEPT !.kind = "completion"])
             ELSE ExceptResponse(reqs[r].raw.provider_id)
  /\ reqs' = [reqs EXCEPT ![r] = Idle]
  /\ UNCHANGED <<draft, phase, deleted, store, environ, ops>>

---------------------------------------------------------------------------
(* Specification *)

Next ==
  \/ lifespan
  \/ startup_db_client
  \/ \E provider \in NewProviders : add_provider(provider)
  \/ \E id \in RequestIds : get_provider(id)
  \/ \E id \in RequestIds, patch \in Patches : update_provider(id, patch)
  \/ \E id \in RequestIds : delete_provider(id)
  \/ \E name \in {S_openai, S_custom} : main_delete_provider(name)
  \/ \E r \in Slots, raw \in RawRequests : api_completion(r, raw)
  \/ \E r \in Slots, raw \in RawRequests : main_api_completion(r, raw)
  \/ \E r \in Slots : set_provider_keys(r)
  \/ \E r \in Slots : main_api_completion_resume(r)
  \/ \E r \in Slots : acompletion_read(r)
  \/ \E r \in Slots, succeeded \in BOOLEAN : acompletion_return(r, succeeded)

Spec == Init /\ [][Next]_vars

\* the Provider Store surface alone: process start and the provider block
NextProviders ==
  \/ lifespan
  \/ startup_db_client
  \/ \E provider \in NewProviders : add_provider(provider)
  \/ \E id \in RequestIds : get_provider(id)
  \/ \E id \in RequestIds, patch \in Patches : update_provider(id, patch)
  \/ \E id \in RequestIds : delete_provider(id)
  \/ \E name \in {S_openai, S_custom} : main_delete_provider(name)

\* the provider block reads no environment variable, so it is started from the
\* environment that holds no key
InitProviders == Init /\ environ = [k \in {<<"PATH">>} |-> <<"/bin">>]

SpecProviders == InitProviders /\ [][NextProviders]_vars

---------------------------------------------------------------------------
(* Properties *)

\* the step in which slot r hands its request to the backend
Dispatched(r) == reqs[r].pc # "inflight" /\ reqs'[r].pc = "inflight"

\* the model name the translator is to produce for request raw and provider row
ExpectedModel(raw, provider) ==
  provider.provider_syntax \o <<"/">> \o raw.model
    \o (IF provider.endpoint = None THEN <<>> ELSE provider.endpoint)

\* this step runs parse_request for slot r on request raw and a resolved provider
Translates(r, raw) ==
  \/ /\ api_completion(r, raw)
     /\ raw.provider_id \in DOMAIN store
  \/ /\ main_api_completion_resume(r)
     /\ raw = reqs[r].raw
     /\ raw.provider_id \in DOMAIN SessionView(reqs[r].session)

\* the provider row that step hands to parse_request
Resolved(r, raw) == SessionView(reqs[r].session)[raw.provider_id]

\* C1: for every provider with provider_syntax s and endpoint e (empty or absent
\* included) and every completion request with model m, the translator produces a
\* request whose model is s + "/" + m + e, with the messages and a caller-set
\* max_tokens carried over unchanged.
C1_TranslatedModel ==
  [][\A r \in Slots, raw \in RawRequests :
       (Translates(r, raw) /\ Resolved(r, raw).provider_syntax # None) =>
         /\ reqs'[r].pc = "inflight"
         /\ reqs'[r].sent.model = ExpectedModel(raw, Resolved(r, raw))
         /\ reqs'[r].sent.messages = raw.messages
         /\ "max_tokens" \in DOMAIN raw =>
              /\ "max_tokens" \in DOMAIN reqs'[r].sent
              /\ reqs'[r].sent.max_tokens = raw.max_tokens]_vars

\* C1 holds of every provider whose api_base is empty or absent: the translator
\* fails on the others only (C2).
C1_WithoutApiBase ==
  [][\A r \in Slots, raw \in RawRequests :
       (/\ Translates(r, raw)
        /\ Resolved(r, raw).provider_syntax # None
        /\ ~Truthy(Resolved(r, raw).api_base)) =>
         /\ reqs'[r].pc = "inflight"
         /\ DOMAIN reqs'[r].sent = (DOMAIN raw) \cap CompletionReqBaseFields
         /\ reqs'[r].sent.model = ExpectedModel(raw, Resolved(r, raw))
         /\ reqs'[r].sent.messages = raw.messages
         /\ "max_tokens" \in DOMAIN raw => reqs'[r].sent.max_tokens = raw.max_tokens]_vars

\* C2: the request handed to the backend carries a base-URL field exactly when
\* provider.api_base is non-empty, and then its value is provider.api_base; when
\* api_base is empty or absent the field is absent and translation succeeds.
C2_BaseUrlField ==
  [][\A r \in Slots, raw \in RawRequests :
       (Translates(r, raw) /\ Resolved(r, raw).provider_syntax # None) =>
         /\ reqs'[r].pc = "inflight"
         /\ IF Truthy(Resolved(r, raw).api_base)
              THEN /\ "api_base" \in DOMAIN reqs'[r].sent
                   /\ reqs'[r].sent.api_base = Resolved(r, raw).api_base
            ELSE "api_base" \notin DOMAIN reqs'[r].sent]_vars

\* a completion request for provider id ends in this step with a 404 carrying the id
NotFound(id) ==
  /\ resp'.status = 404
  /\ Contains(resp'.detail, IntToStr(id))

\* this step decides the fate of a completion request of slot r for provider id:
\* it ends with a response, or it is handed to the backend
Resolves(r, id) ==
  \/ \E raw \in RawRequests : api_completion(r, raw) /\ raw.provider_id = id
  \/ main_api_completion_resume(r) /\ reqs[r].raw.provider_id = id

\* C3: after a delete of an existing provider P has been issued, the record is
\* gone from the store, and every later completion request that references P's id
\* ends in a NotFoundError and is not handed to the backend.
C3_DeletedThenNotFound ==
  [][/\ deleted' \cap DOMAIN store' = {}
     /\ \A r \in Slots, id \in deleted :
          Resolves(r, id) => (NotFound(id) /\ reqs'[r].pc = "idle")]_vars

\* C3 holds of wonderland.py, whose delete handler commits the deletion
C3_Wonderland ==
  [][draft = "wonderland" =>
       /\ deleted' \cap DOMAIN store' = {}
       /\ \A r \in Slots, id \in deleted :
            Resolves(r, id) => (NotFound(id) /\ reqs'[r].pc = "idle")]_vars

\* C4: whenever a completion is handed to the backend for a stored provider P,
\* the credential lookup maps upper(P.provider_name) + "_API_KEY" to P's api_key.
C4_CredentialCurrent ==
  [][\A r \in Slots :
       (Dispatched(r) /\ reqs'[r].raw.provider_id \in DOMAIN store') =>
         LET provider == store'[reqs'[r].raw.provider_id]
         IN /\ KeyName(provider.provider_name) \in DOMAIN environ'
            /\ environ'[KeyName(provider.provider_name)] = provider.api_key]_vars

\* body carries the process environment, a value of it, or a stored credential
Leaks(body) ==
  \/ DOMAIN body.mapping # {}
  \/ body.text \in {environ[k] : k \in DOMAIN environ}
  \/ body.text \in {store[id].api_key : id \in DOMAIN store}

\* C5: when the backend call fails, the response is a structured failure with a
\* kind and a message, not a success-shaped response, and it holds neither the
\* process environment nor a stored credential.
C5_FailureIsOpaque ==
  [][\A r \in Slots :
       acompletion_return(r, FALSE) =>
         /\ resp'.status >= 400
         /\ resp'.error # ""
         /\ resp'.detail # <<>>
         /\ ~Leaks(resp'.body)]_vars

\* the step answers 404 with id in the message and changes neither the store nor
\* the credential lookup
NotFoundUnchanged(id) ==
  /\ NotFound(id)
  /\ store' = store
  /\ environ' = environ

\* C6: get, update and delete with an id that is not in the store, and a
\* completion whose provider_id is not in the store, fail with a 404 whose message
\* contains the id, and leave the store and the credential lookup unchanged.
C6_UnknownIdNotFound ==
  [][\A id \in RequestIds \ DOMAIN store :
       /\ get_provider(id) => NotFoundUnchanged(id)
       /\ \A patch \in Patches : update_provider(id, patch) => NotFoundUnchanged(id)
       /\ delete_provider(id) => NotFoundUnchanged(id)
       /\ \A r \in Slots :
            /\ Resolves(r, id) => NotFoundUnchanged(id)
            /\ (set_provider_keys(r) /\ reqs[r].raw.provider_id = id) =>
                 environ' = environ]_vars

\* C4 for a provider whose derived key no other stored provider shares: the
\* lookup is written at process start only (wonderland.py) or from the rows read
\* before a concurrent update (main.py), so an updated api_key is not in it.
C4_UniqueNames ==
  [][\A r \in Slots :
       (/\ Dispatched(r)
        /\ reqs'[r].raw.provider_id \in DOMAIN store'
        /\ \A i, j \in DOMAIN store' :
             KeyName(store'[i].provider_name) = KeyName(store'[j].provider_name) => i = j) =>
         LET provider == store'[reqs'[r].raw.provider_id]
         IN /\ KeyName(provider.provider_name) \in DOMAIN environ'
            /\ environ'[KeyName(provider.provider_name)] = provider.api_key]_vars

\* update_provider with body patch, answering outcome.resp, took the table from
\* before to outcome.store by overwriting in row id exactly the fields of patch
MergePatched(before, outcome, id, patch) ==
  /\ DOMAIN outcome.store = DOMAIN before
  /\ \A other \in (DOMAIN before) \ {id} : outcome.store[other] = before[other]
  /\ \A f \in ProviderFields \ DOMAIN patch : outcome.store[id][f] = before[id][f]
  /\ IF outcome.resp.status = 200
       THEN \A f \in DOMAIN patch : outcome.store[id][f] = patch[f]
     ELSE outcome.store = before

\* C7: update of an existing provider with a partial patch overwrites exactly the
\* fields the patch supplies: every field not supplied keeps its value, the record
\* keeps its id, every other record is unchanged.  (A patch that nulls a NOT NULL
\* column is refused and changes nothing.)  Stated of what update_provider does
\* from each reachable table, for each stored id and each patch.
C7_MergePatch ==
  \A id \in DOMAIN store, patch \in Patches :
    MergePatched(store, UpdateOutcome(store, id, patch), id, patch)

\* C7 witness: PATCH {endpoint: "/v2"} has been applied to a stored provider named
\* "openai" (no row starts with that name and that endpoint), beside another row
C7_Witness ==
  /\ resp.op = "update_provider"
  /\ resp.status = 200
  /\ resp.id \in DOMAIN store
  /\ store[resp.id].provider_name = S_openai
  /\ store[resp.id].endpoint = S_v2
  /\ store[resp.id].api_key = S_k1
  /\ Cardinality(DOMAIN store) > 1

\* the provider_syntax a created record is to hold
ResolvedSyntax(provider) ==
  IF provider.provider_name \in ListedProviders THEN provider.provider_name
  ELSE provider.provider_syntax

\* C8: creating a provider succeeds and stores one new record, whose
\* provider_syntax is the submitted provider_name if that name is in the known
\* provider catalog and the submitted provider_syntax otherwise.
C8_CreateStoresRecord ==
  [][\A provider \in NewProviders :
       add_provider(provider) =>
         /\ resp'.status = 200
         /\ \E id \in (DOMAIN store') \ (DOMAIN store) :
              /\ DOMAIN store' = (DOMAIN store) \cup {id}
              /\ store'[id].provider_syntax = ResolvedSyntax(provider)
         /\ \A id \in DOMAIN store : store'[id] = store[id]]_vars

\* C9: a run of set_provider_keys leaves the provider records as they were,
\* provider_name included, and a second run right after the first leaves the
\* credential lookup as the first run left it; the empty table is no failure.
C9_ExposureIdempotent ==
  [][/\ \A r \in Slots :
          set_provider_keys(r) => reqs'[r].session = reqs[r].session
     /\ lifespan =>
          /\ store' = store
          /\ phase' = "serving"
          /\ WriteKeys(environ', AscSeq(DOMAIN store'), store') = environ']_vars

\* C9 for the rows of the table and the two runs of two requests in succession:
\* the table is never written by set_provider_keys, only the objects of the
\* session that ran it are
C9_TableUnchanged ==
  [][/\ \A r \in Slots : set_provider_keys(r) => store' = store
     /\ lifespan => (store' = store /\
                     WriteKeys(environ', AscSeq(DOMAIN store'), store') = environ')]_vars

\* slot q is inside set_provider_keys and has written some keys but not all
PartlyWritten(q) ==
  /\ reqs[q].pc = "sync"
  /\ reqs[q].rows # <<>>
  /\ Len(reqs[q].rows) < Cardinality(DOMAIN reqs[q].session)

\* C10: two runs of the credential resync never overlap, and no dispatch reads
\* the credential lookup while a resync has written only some of the keys.
C10_ResyncAtomic ==
  [][/\ Cardinality({q \in Slots : reqs'[q].pc = "sync"}) <= 1
     /\ \A r \in Slots :
          acompletion_read(r) => ~\E q \in Slots : PartlyWritten(q)]_vars

\* the first half of C10 alone: the event loop runs one handler at a time
C10_NoOverlap ==
  Cardinality({q \in Slots : reqs[q].pc = "sync"}) <= 1

=============================================================================
